---- MODULE Spec2Model ----
(***************************************************************************)
(* A model of rift/cli_session_handler.py: the CLI session of the RIFT     *)
(* engine.  One CliSessionHandler object is modelled: its fields are the   *)
(* variables, ready_to_read (the scheduler's callback) is the only         *)
(* handler, and every method it calls is an operator on a record `s' that  *)
(* holds the object's fields while the handler runs.  Bytes are integers   *)
(* 0..255 and byte strings and text are sequences of them.                 *)
(***************************************************************************)
EXTENDS Integers, Sequences, FiniteSets, TLC

VARIABLES
    telnet,                    \* self._telnet: network (TRUE) or stdin/stdout session
    rx_fd,                     \* self._rx_fd, NONE once closed
    tx_fd,                     \* self._tx_fd, NONE once closed
    telnet_suppress_go_ahead,  \* self._telnet_suppress_go_ahead
    telnet_echo,               \* self._telnet_echo
    input_bytes_buffer,        \* self._input_bytes_buffer
    command_buffer,            \* self._command_buffer
    command_buffer_pos,        \* self._command_buffer_pos
    command_history,           \* self._command_history
    command_history_pos,       \* self._command_history_pos, NONE when live
    registered,                \* the session is in scheduler.SCHEDULER's handlers
    exited,                    \* sys.exit(0) was called: the hosting process is gone
    closed_fds,                \* the descriptors passed to os.close, in order
    new_input_bytes,           \* what the last os.read returned (<<>>: failed or empty)
    written,                   \* the bytes os.write put on tx_fd during the last call
    parse_tree,                \* self._parse_tree
    calls,                     \* the Action callbacks invoked during the last call
    dispatched,                \* the process_* methods the last call's decoding ran
    completed,                 \* the command buffers the last call ended with a line end
    browsed,                   \* history variable: a history key was decoded at some time
    entered,                   \* history variable: the non-empty lines completed, in
                               \* order, as long as no history key was decoded
    typed,                     \* history variable: the literal bytes decoded since the
                               \* last line end, <<NONE>> once anything else was decoded
    since_open                 \* history variable: the bytes read, the bytes written
                               \* and the lines completed since the session was
                               \* opened, where the specification follows them

vars == <<telnet, rx_fd, tx_fd, telnet_suppress_go_ahead, telnet_echo,
          input_bytes_buffer, command_buffer, command_buffer_pos,
          command_history, command_history_pos, registered, exited,
          closed_fds, new_input_bytes, written, parse_tree, calls, dispatched,
          completed, browsed, entered, typed, since_open>>

----------------------------------------------------------------------------
(* Program constants (cli_session_handler.py:6-36).                         *)

MAX_HISTORY == 100

CONTROL_A == 1
CONTROL_E == 5
CONTROL_N == 14
CONTROL_P == 16
BELL == 7
LINE_FEED == 10
CARRIAGE_RETURN == 13
ESCAPE == 27
DELETE == 127
QUESTION_MARK == 63

TELNET_NULL == 0
TELNET_OPTION_ECHO == 1
TELNET_OPTION_SUPPRESS_GO_AHEAD == 3
TELNET_WILL == 251
TELNET_WONT == 252
TELNET_DO == 253
TELNET_DONT == 254
TELNET_INTERPRET_AS_COMMAND == 255

VT100_LEFT_SQUARE_BRACKET == 91
VT100_CURSOR_UP == 65
VT100_CURSOR_DOWN == 66
VT100_CURSOR_RIGHT == 67
VT100_CURSOR_LEFT == 68
VT100_ERASE_TO_END_OF_LINE == 75

\* Python's None, for the fields that hold None or a number >= 0.
NONE == -1

----------------------------------------------------------------------------
(* Python built-ins the code uses, on sequences of bytes / code points.     *)

\* seq[from:] with a 0-based start (a Python slice with no end).
SliceFrom(seq, from) == SubSeq(seq, from + 1, Len(seq))

\* seq[0:to] (a Python slice from the start, `to' exclusive, clamped at 0).
SliceTo(seq, to) == SubSeq(seq, 1, to)

\* str.startswith
StartsWith(str, prefix) ==
    /\ Len(prefix) <= Len(str)
    /\ SubSeq(str, 1, Len(prefix)) = prefix

\* str(n).encode() for n >= 0: the decimal ASCII digits of n.
RECURSIVE Decimal(_)
Decimal(n) ==
    IF n < 10 THEN <<48 + n>> ELSE Decimal(n \div 10) \o <<48 + (n % 10)>>

\* bytes.decode("utf-8", "ignore").  A byte below 128 is its own code point.
\* The bytes 0xF5..0xFF occur in no well-formed UTF-8 sequence and "ignore"
\* drops them; the alphabets used here hold no byte in 0x80..0xF4, so this
\* is the whole of the decoder on the inputs modelled.
DecodeUtf8Ignore(bytes) == SelectSeq(bytes, LAMBDA b : b < 128)

\* The characters below 128 for which str.isspace() holds: str.split()
\* with no argument splits on runs of them.
Whitespace == {9, 10, 11, 12, 13, 28, 29, 30, 31, 32}

\* str.split(): the maximal runs of non-whitespace characters, in order.
RECURSIVE SplitFrom(_, _, _)
SplitFrom(str, i, cur) ==
    IF i > Len(str)
    THEN IF cur = <<>> THEN <<>> ELSE <<cur>>
    ELSE IF str[i] \in Whitespace
         THEN (IF cur = <<>> THEN <<>> ELSE <<cur>>) \o SplitFrom(str, i + 1, <<>>)
         ELSE SplitFrom(str, i + 1, Append(cur, str[i]))

Split(str) == SplitFrom(str, 1, <<>>)

\* str.replace('\n', '\r\n')
RECURSIVE ReplaceNewlines(_)
ReplaceNewlines(str) ==
    IF str = <<>> THEN <<>>
    ELSE (IF Head(str) = LINE_FEED THEN <<CARRIAGE_RETURN, LINE_FEED>> ELSE <<Head(str)>>)
         \o ReplaceNewlines(Tail(str))

\* Python's < on str: lexicographic on code points, a proper prefix first.
RECURSIVE StrLess(_, _)
StrLess(a, b) ==
    IF b = <<>> THEN FALSE
    ELSE IF a = <<>> THEN TRUE
    ELSE IF Head(a) # Head(b) THEN Head(a) < Head(b)
    ELSE StrLess(Tail(a), Tail(b))

----------------------------------------------------------------------------
(* The output channel and the renderer.                                     *)

\* The session object while a handler runs: the fields, what the call has
\* written and invoked so far, and the decode loop's need_more_input.
Ret(s, need) == [s EXCEPT !.need_more_input = need]

send_bytes(s, msg) ==
    IF s.tx_fd = NONE THEN s
    ELSE [s EXCEPT !.written = @ \o msg]

send_byte(s, byte) == send_bytes(s, <<byte>>)

send_bell(s) == send_byte(s, BELL)

send_erase_to_end_of_line(s) ==
    send_bytes(s, <<ESCAPE, VT100_LEFT_SQUARE_BRACKET, VT100_ERASE_TO_END_OF_LINE>>)

send_cursor_left(s, positions) ==
    IF positions = 0 THEN s
    ELSE send_bytes(s, <<ESCAPE, VT100_LEFT_SQUARE_BRACKET>> \o Decimal(positions)
                       \o <<VT100_CURSOR_LEFT>>)

send_cursor_right(s, positions) ==
    IF positions = 0 THEN s
    ELSE send_bytes(s, <<ESCAPE, VT100_LEFT_SQUARE_BRACKET>> \o Decimal(positions)
                       \o <<VT100_CURSOR_RIGHT>>)

send_will_suppress_go_ahead(s) ==
    send_bytes(s, <<TELNET_INTERPRET_AS_COMMAND, TELNET_WILL,
                    TELNET_OPTION_SUPPRESS_GO_AHEAD>>)

send_will_echo(s) ==
    send_bytes(s, <<TELNET_INTERPRET_AS_COMMAND, TELNET_WILL, TELNET_OPTION_ECHO>>)

must_echo(s) ==
    IF ~s.telnet THEN TRUE
    ELSE IF s.telnet_echo THEN TRUE
    ELSE FALSE

echo_byte(s, byte) == IF must_echo(s) THEN send_bytes(s, <<byte>>) ELSE s

echo_bytes(s, byte_list) == IF must_echo(s) THEN send_bytes(s, byte_list) ELSE s

\* print(message, add_newline): text is ASCII here, so encode('utf-8') keeps it.
print(s, message, add_newline) ==
    IF s.tx_fd = NONE THEN s
    ELSE LET msg == IF add_newline THEN message \o <<LINE_FEED>> ELSE message
             fixed_message == IF must_echo(s) THEN ReplaceNewlines(msg) ELSE msg
         IN [s EXCEPT !.written = @ \o fixed_message]

\* current_node_name(): the session is opened with node = None, and the
\* callbacks, which alone could set another node, are opaque here.
current_node_name == <<>>

print_prompt(s) == print(s, current_node_name \o <<62, 32>>, FALSE)

\* refresh_command_from_pos that does not erase the rest of the line first.
refresh_command_from_pos_without_erase(s) ==
    LET positions == Len(SliceFrom(s.command_buffer, s.command_buffer_pos))
        s2 == send_bytes(s, SliceFrom(s.command_buffer, s.command_buffer_pos))
    IN send_cursor_left(s2, positions)

refresh_command_from_pos(s) ==
    LET tail == SliceFrom(s.command_buffer, s.command_buffer_pos)
        positions == Len(tail)
    IN send_cursor_left(send_bytes(send_erase_to_end_of_line(s), tail), positions)

----------------------------------------------------------------------------
(* The line editor.                                                         *)

process_cursor_left(s) ==
    IF s.command_buffer_pos > 0
    THEN send_cursor_left([s EXCEPT !.command_buffer_pos = @ - 1], 1)
    ELSE send_bell(s)

\* process_cursor_right with the test for the end of the line left out.
process_cursor_right_unchecked(s) ==
    send_cursor_right([s EXCEPT !.command_buffer_pos = @ + 1], 1)

process_cursor_right(s) ==
    IF s.command_buffer_pos < Len(s.command_buffer)
    THEN send_cursor_right([s EXCEPT !.command_buffer_pos = @ + 1], 1)
    ELSE send_bell(s)

process_cursor_to_start_of_line(s) ==
    IF s.command_buffer_pos > 0
    THEN LET positions == s.command_buffer_pos
         IN Ret([send_cursor_left(s, positions) EXCEPT !.command_buffer_pos = 0],
                FALSE)
    ELSE Ret(s, FALSE)

process_cursor_to_end_of_line(s) ==
    IF s.command_buffer_pos < Len(s.command_buffer)
    THEN LET positions == Len(s.command_buffer) - s.command_buffer_pos
         IN Ret([send_cursor_right(s, positions) EXCEPT
                    !.command_buffer_pos = Len(s.command_buffer)], FALSE)
    ELSE Ret(s, FALSE)

replace_command(s, new_command) ==
    LET s1 == process_cursor_to_start_of_line(s)
        s2 == send_erase_to_end_of_line(s1)
        s3 == [s2 EXCEPT !.command_buffer = new_command]
        s4 == send_bytes(s3, s3.command_buffer)
    IN [s4 EXCEPT !.command_buffer_pos = Len(s4.command_buffer)]

\* process_delete that removes the byte at the cursor, not the one before.
process_delete_at_cursor(s) ==
    LET pos == s.command_buffer_pos IN
    IF pos > 0
    THEN LET before == SliceTo(s.command_buffer, pos)
             after == SliceFrom(s.command_buffer, pos + 1)
         IN Ret(refresh_command_from_pos(
                    send_cursor_left([s EXCEPT !.command_buffer = before \o after,
                                               !.command_buffer_pos = @ - 1], 1)),
                FALSE)
    ELSE Ret(send_bell(s), FALSE)

process_delete(s) ==
    LET pos == s.command_buffer_pos IN
    IF pos > 0
    THEN LET before == SliceTo(s.command_buffer, pos - 1)
             after == SliceFrom(s.command_buffer, pos)
         IN Ret(refresh_command_from_pos(
                    send_cursor_left([s EXCEPT !.command_buffer = before \o after,
                                               !.command_buffer_pos = @ - 1], 1)),
                FALSE)
    ELSE Ret(send_bell(s), FALSE)

\* process_other that splits the line one byte after the cursor.
process_other_after_cursor(s, byte) ==
    IF s.command_buffer_pos >= Len(s.command_buffer)
    THEN Ret([echo_byte(s, byte) EXCEPT !.command_buffer = @ \o <<byte>>,
                                        !.command_buffer_pos = @ + 1], FALSE)
    ELSE LET pos == s.command_buffer_pos
             before == SliceTo(s.command_buffer, pos + 1)
             after == SliceFrom(s.command_buffer, pos + 1)
         IN Ret(send_cursor_right(
                    [refresh_command_from_pos(
                         [s EXCEPT !.command_buffer = before \o <<byte>> \o after])
                     EXCEPT !.command_buffer_pos = @ + 1], 1),
                FALSE)

\* process_other that also leaves the history: it sets command_history_pos
\* to None.
process_other_going_live(s, byte) ==
    IF s.command_buffer_pos >= Len(s.command_buffer)
    THEN Ret([echo_byte(s, byte) EXCEPT !.command_buffer = @ \o <<byte>>,
                                        !.command_buffer_pos = @ + 1,
                                        !.command_history_pos = NONE], FALSE)
    ELSE LET pos == s.command_buffer_pos
             before == SliceTo(s.command_buffer, pos)
             after == SliceFrom(s.command_buffer, pos)
         IN Ret(send_cursor_right(
                    [refresh_command_from_pos(
                         [s EXCEPT !.command_buffer = before \o <<byte>> \o after])
                     EXCEPT !.command_buffer_pos = @ + 1,
                            !.command_history_pos = NONE], 1),
                FALSE)

\* process_other has no return statement: it returns None, which the decode
\* loop reads as "no more input needed".
process_other(s, byte) ==
    IF s.command_buffer_pos >= Len(s.command_buffer)
    THEN Ret([echo_byte(s, byte) EXCEPT !.command_buffer = @ \o <<byte>>,
                                        !.command_buffer_pos = @ + 1], FALSE)
    ELSE LET pos == s.command_buffer_pos
             before == SliceTo(s.command_buffer, pos)
             after == SliceFrom(s.command_buffer, pos)
         IN Ret(send_cursor_right(
                    [refresh_command_from_pos(
                         [s EXCEPT !.command_buffer = before \o <<byte>> \o after])
                     EXCEPT !.command_buffer_pos = @ + 1], 1),
                FALSE)

\* self._command_history[pos], pos counted from 0.
HistoryAt(s, pos) == s.command_history[pos + 1]

\* process_prev_history that, at the oldest entry, rings the bell and goes
\* back to the live line.
process_prev_history_leaving(s) ==
    IF s.command_history = <<>> THEN send_bell(s)
    ELSE LET s1 == IF s.command_history_pos = NONE
                   THEN [s EXCEPT !.command_history_pos = Len(s.command_history),
                                  !.command_history =
                                      IF s.command_buffer # <<>>
                                      THEN Append(@, s.command_buffer) ELSE @]
                   ELSE s
         IN IF s1.command_history_pos = 0
            THEN send_bell([s1 EXCEPT !.command_history_pos = NONE])
            ELSE LET s2 == [s1 EXCEPT !.command_history_pos = @ - 1]
                 IN replace_command(s2, HistoryAt(s2, s2.command_history_pos))

process_prev_history(s) ==
    IF s.command_history = <<>> THEN send_bell(s)
    ELSE LET s1 == IF s.command_history_pos = NONE
                   THEN [s EXCEPT !.command_history_pos = Len(s.command_history),
                                  !.command_history =
                                      IF s.command_buffer # <<>>
                                      THEN Append(@, s.command_buffer) ELSE @]
                   ELSE s
         IN IF s1.command_history_pos = 0 THEN send_bell(s1)
            ELSE LET s2 == [s1 EXCEPT !.command_history_pos = @ - 1]
                 IN replace_command(s2, HistoryAt(s2, s2.command_history_pos))

\* process_next_history without the test for the end of the history: the
\* cursor moves on past the newest entry.
process_next_history_past_newest(s) ==
    IF s.command_history_pos = NONE THEN send_bell(s)
    ELSE LET s1 == [s EXCEPT !.command_history_pos = @ + 1]
         IN IF s1.command_history_pos > Len(s1.command_history)
            THEN replace_command([s1 EXCEPT !.command_history_pos = NONE], <<>>)
            ELSE replace_command(s1, IF s1.command_history_pos < Len(s1.command_history)
                                     THEN HistoryAt(s1, s1.command_history_pos)
                                     ELSE <<>>)

process_next_history(s) ==
    IF s.command_history_pos = NONE THEN send_bell(s)
    ELSE LET s1 == [s EXCEPT !.command_history_pos = @ + 1]
         IN IF s1.command_history_pos >= Len(s1.command_history)
            THEN replace_command([s1 EXCEPT !.command_history_pos = NONE], <<>>)
            ELSE replace_command(s1, HistoryAt(s1, s1.command_history_pos))

----------------------------------------------------------------------------
(* The command tree.  A parse tree node is an Action (a callable, named by  *)
(* fn) or a Branch (a dict: items are its (key, subtree) pairs in the       *)
(* dict's order, keys unique).                                              *)

Action(fn) == [kind |-> "Action", fn |-> fn, items |-> <<>>]

Branch(items) == [kind |-> "Branch", fn |-> "", items |-> items]

callable(parse_subtree) == parse_subtree.kind = "Action"

\* key in parse_subtree
HasKey(parse_subtree, key) ==
    \E i \in 1..Len(parse_subtree.items) : parse_subtree.items[i][1] = key

\* parse_subtree[key]
Lookup(parse_subtree, key) ==
    parse_subtree.items[CHOOSE i \in 1..Len(parse_subtree.items) :
                            parse_subtree.items[i][1] = key][2]

\* parameters[parameter_name] = parameter_name: the name stored where the
\* value belongs.
SetParameterToName(parameters, name, value) ==
    {p \in parameters : p[1] # name} \cup {<<name, name>>}

\* The parameters dict, as the set of its (name, value) pairs.
SetParameter(parameters, name, value) ==
    {p \in parameters : p[1] # name} \cup {<<name, value>>}

token_key(item) ==
    LET token == item[1] IN
    IF Len(token) > 1 /\ token[1] = 36 THEN Tail(token) ELSE token

\* sorted(parse_subtree.items(), key=token_key): a stable sort, so an item
\* goes after every item whose key is not greater than its own.
RECURSIVE InsertSorted(_, _)
InsertSorted(item, items) ==
    IF items = <<>> THEN <<item>>
    ELSE IF StrLess(token_key(item), token_key(Head(items)))
         THEN <<item>> \o items
         ELSE <<Head(items)>> \o InsertSorted(item, Tail(items))

RECURSIVE Sorted(_)
Sorted(items) ==
    IF items = <<>> THEN <<>>
    ELSE InsertSorted(items[Len(items)], Sorted(SubSeq(items, 1, Len(items) - 1)))

RECURSIVE print_help_recursion(_, _, _, _)
RECURSIVE print_help_items(_, _, _, _)

\* The for loop of print_help_recursion over the sorted items.
print_help_items(s, command_str, items, prefix) ==
    IF items = <<>> THEN s
    ELSE LET match_str == Head(items)[1]
             new_parse_subtree == Head(items)[2]
             new_command_str ==
                 IF match_str = <<>> THEN command_str
                 ELSE IF match_str[1] = 36
                      THEN command_str \o Tail(match_str) \o <<32, 60>>
                           \o Tail(match_str) \o <<62, 32>>
                      ELSE command_str \o match_str \o <<32>>
             s1 == print_help_recursion(s, new_command_str, new_parse_subtree, prefix)
         IN print_help_items(s1, command_str, Tail(items), prefix)

print_help_recursion(s, command_str, parse_subtree, prefix) ==
    IF callable(parse_subtree)
    THEN print(s, prefix \o command_str, TRUE)
    ELSE print_help_items(s, command_str, Sorted(parse_subtree.items), prefix)

print_help(s, normalized_parsed, parse_subtree) ==
    print_help_recursion(s, <<>>, parse_subtree, normalized_parsed)

\* The for loop of print_ambiguous_help: prefix is one variable, extended
\* (+=) in every iteration.
RECURSIVE print_ambiguous_loop(_, _, _)
print_ambiguous_loop(s, prefix, parse_subsubtrees) ==
    IF parse_subsubtrees = <<>> THEN s
    ELSE LET match_token == Head(parse_subsubtrees)[1]
             match_parse_subtree == Head(parse_subsubtrees)[2]
             prefix1 ==
                 IF match_token[1] = 36
                 THEN prefix \o Tail(match_token) \o <<32, 60>>
                      \o Tail(match_token) \o <<62, 32>>
                 ELSE prefix \o match_token \o <<32>>
             s1 == print_help_recursion(s, <<>>, match_parse_subtree, prefix1)
         IN print_ambiguous_loop(s1, prefix1, Tail(parse_subsubtrees))

print_ambiguous_help(s, normalized_parsed, parse_subsubtrees) ==
    print_ambiguous_loop(s, normalized_parsed, parse_subsubtrees)

\* lookup_token_in_parse_subtree with startswith the wrong way round:
\* token.startswith(match_token).
lookup_token_with_key_as_prefix(token, parse_subtree) ==
    SelectSeq(parse_subtree.items, LAMBDA item : StartsWith(token, item[1]))

lookup_token_in_parse_subtree(token, parse_subtree) ==
    SelectSeq(parse_subtree.items, LAMBDA item : StartsWith(item[1], token))

\* The call without the `else': the command is called with the parameters
\* and then again without them.
InvokeTwice(s, command_function, parameters) ==
    [s EXCEPT !.calls = @ \o << [fn |-> command_function.fn,
                                 args |-> IF parameters # {}
                                          THEN <<parameters>> ELSE <<>>],
                                [fn |-> command_function.fn, args |-> <<>>] >>]

\* command_function(self._command_handler, self[, parameters]): the callback
\* is application code; what the session does is the call, recorded with
\* the arguments that follow the handler and the session.
Invoke(s, command_function, parameters) ==
    [s EXCEPT !.calls = Append(@, [fn |-> command_function.fn,
                                   args |-> IF parameters # {}
                                            THEN <<parameters>> ELSE <<>>])]

RECURSIVE parse_tokens(_, _, _, _, _, _)
parse_tokens(s, tokens, parse_subtree, normalized_parsed, parameters, context_help) ==
    IF tokens = <<>>
    THEN IF callable(parse_subtree)
         THEN IF ~context_help THEN Invoke(s, parse_subtree, parameters) ELSE s
         ELSE IF HasKey(parse_subtree, <<>>)
         THEN IF context_help
              THEN print_help(print(s, <<80, 111, 115, 115, 105, 98, 108, 101, 32, 99,
                                         111, 109, 112, 108, 101, 116, 105, 111, 110,
                                         115, 58>>, TRUE),
                              normalized_parsed, parse_subtree)
              ELSE parse_tokens(s, tokens, Lookup(parse_subtree, <<>>),
                                normalized_parsed, parameters, context_help)
         ELSE print_help(print(s, <<77, 105, 115, 115, 105, 110, 103, 32, 105, 110,
                                    112, 117, 116, 44, 32, 112, 111, 115, 115, 105,
                                    98, 108, 101, 32, 99, 111, 109, 112, 108, 101,
                                    116, 105, 111, 110, 115, 58>>, TRUE),
                         normalized_parsed, parse_subtree)
    ELSE
    LET token == Head(tokens)
        tokens1 == Tail(tokens)
    IN
    IF callable(parse_subtree)
    THEN print(s, <<85, 110, 101, 120, 112, 101, 99, 116, 101, 100, 32, 101, 120,
                    116, 114, 97, 32, 105, 110, 112, 117, 116, 58, 32>> \o token, TRUE)
    ELSE
    LET exact_keyword == HasKey(parse_subtree, token)
        exact_param == HasKey(parse_subtree, <<36>> \o token)
        keyword_subsubtrees ==
            IF exact_keyword THEN << <<token, Lookup(parse_subtree, token)>> >>
            ELSE IF exact_param THEN <<>>
            ELSE lookup_token_in_parse_subtree(token, parse_subtree)
        param_subsubtrees ==
            IF exact_keyword THEN <<>>
            ELSE IF exact_param
                 THEN << <<token, Lookup(parse_subtree, <<36>> \o token)>> >>
            ELSE lookup_token_in_parse_subtree(<<36>> \o token, parse_subtree)
        all_subsubtrees == keyword_subsubtrees \o param_subsubtrees
    IN
    IF Len(all_subsubtrees) > 1
    THEN print_ambiguous_help(
             print(s, <<65, 109, 98, 105, 103, 117, 111, 117, 115, 32, 105, 110, 112,
                        117, 116, 32, 34>> \o token
                      \o <<34, 44, 32, 99, 97, 110, 100, 105, 100, 97, 116, 101, 115,
                           58>>, TRUE),
             normalized_parsed, all_subsubtrees)
    ELSE IF Len(keyword_subsubtrees) = 1
    THEN LET keyword == keyword_subsubtrees[1][1]
         IN parse_tokens(s, tokens1, keyword_subsubtrees[1][2],
                         normalized_parsed \o keyword \o <<32>>, parameters,
                         context_help)
    ELSE IF Len(param_subsubtrees) = 1
    THEN LET parameter_name == param_subsubtrees[1][1]
             new_parse_subtree == param_subsubtrees[1][2]
         IN IF tokens1 = <<>>
            THEN LET s1 == IF context_help
                           THEN print(s, normalized_parsed \o parameter_name
                                         \o <<32, 60>> \o parameter_name \o <<62>>,
                                      TRUE)
                           ELSE s
                 IN print(s1, <<77, 105, 115, 115, 105, 110, 103, 32, 118, 97, 108,
                                117, 101, 32, 102, 111, 114, 32, 112, 97, 114, 97,
                                109, 101, 116, 101, 114, 32, 60>> \o parameter_name
                              \o <<62>>, TRUE)
            ELSE LET value == Head(tokens1)
                     tokens2 == Tail(tokens1)
                     name == IF parameter_name[1] = 36 THEN Tail(parameter_name)
                             ELSE parameter_name
                 IN parse_tokens(s, tokens2, new_parse_subtree,
                                 normalized_parsed \o value \o <<32>>,
                                 SetParameter(parameters, name, value), context_help)
    ELSE print_help(print(s, <<85, 110, 114, 101, 99, 111, 103, 110, 105, 122, 101,
                               100, 32, 105, 110, 112, 117, 116, 32, 34>> \o token
                             \o <<34, 44, 32, 101, 120, 112, 101, 99, 116, 101, 100,
                                  58>>, TRUE),
                    normalized_parsed, parse_subtree)

parse_command(s, command, context_help) ==
    LET tokens == Split(command) IN
    IF tokens # <<>> \/ context_help
    THEN parse_tokens(s, tokens, s.parse_tree, <<>>, {}, context_help)
    ELSE s

----------------------------------------------------------------------------
(* The byte decoder.                                                        *)

\* The decode loop's trace: method `name' was run.
Dispatch(s, name) == [s EXCEPT !.dispatched = Append(@, name)]

\* while len(self._command_history) > MAX_HISTORY: drop the first entry.
RECURSIVE TrimHistory(_)
TrimHistory(history) ==
    IF Len(history) > MAX_HISTORY THEN TrimHistory(Tail(history)) ELSE history

\* The same body without its last statement: command_history_pos is kept.
AppendToHistoryKeepingPos(s) ==
    [s EXCEPT !.command_history = TrimHistory(Append(@, s.command_buffer))]

\* The body of `if self._command_buffer:' in process_end_of_line.
AppendToHistory(s) ==
    [s EXCEPT !.command_history = TrimHistory(Append(@, s.command_buffer)),
              !.command_history_pos = NONE]

\* decode(..., "ignore") raises no UnicodeDecodeError, so the else branch of
\* the try statement always runs.
process_end_of_line(s) ==
    LET s1 == echo_bytes(s, <<CARRIAGE_RETURN, LINE_FEED>>)
        command == DecodeUtf8Ignore(s1.command_buffer)
        s2 == [s1 EXCEPT !.completed = Append(@, s1.command_buffer)]
        s3 == parse_command(s2, command, FALSE)
        s4 == print_prompt(s3)
        s5 == IF s4.command_buffer # <<>> THEN AppendToHistory(s4) ELSE s4
    IN Ret([s5 EXCEPT !.command_buffer = <<>>, !.command_buffer_pos = 0], FALSE)

process_line_feed(s) == process_end_of_line(s)

\* process_carriage_return that does not wait for the byte after CR.
process_carriage_return_at_once(s) ==
    process_end_of_line(IF s.input_bytes_buffer # <<>>
                           /\ s.input_bytes_buffer[1] = LINE_FEED
                        THEN [s EXCEPT !.input_bytes_buffer = Tail(@)]
                        ELSE s)

process_carriage_return(s) ==
    IF s.input_bytes_buffer = <<>> THEN Ret(s, TRUE)
    ELSE LET line_feed == s.input_bytes_buffer[1]
         IN process_end_of_line(IF line_feed = LINE_FEED
                                THEN [s EXCEPT !.input_bytes_buffer = Tail(@)]
                                ELSE s)

\* process_telnet_command that takes WILL for DO and WONT for DONT.
process_telnet_command_will(s) ==
    IF Len(s.input_bytes_buffer) < 2 THEN Ret(s, TRUE)
    ELSE LET telnet_command == s.input_bytes_buffer[1]
             telnet_option == s.input_bytes_buffer[2]
             s1 == [s EXCEPT !.input_bytes_buffer = SliceFrom(@, 2)]
             s2 == IF telnet_command \in {TELNET_DO, TELNET_WILL}
                   THEN [s1 EXCEPT
                           !.telnet_suppress_go_ahead =
                               IF telnet_option = TELNET_OPTION_SUPPRESS_GO_AHEAD
                               THEN TRUE ELSE @,
                           !.telnet_echo =
                               IF telnet_option = TELNET_OPTION_ECHO THEN TRUE ELSE @]
                   ELSE IF telnet_command \in {TELNET_DONT, TELNET_WONT}
                   THEN [s1 EXCEPT
                           !.telnet_suppress_go_ahead =
                               IF telnet_option = TELNET_OPTION_SUPPRESS_GO_AHEAD
                               THEN FALSE ELSE @,
                           !.telnet_echo =
                               IF telnet_option = TELNET_OPTION_ECHO THEN FALSE ELSE @]
                   ELSE s1
         IN Ret(s2, FALSE)

process_telnet_command(s) ==
    IF Len(s.input_bytes_buffer) < 2 THEN Ret(s, TRUE)
    ELSE LET telnet_command == s.input_bytes_buffer[1]
             telnet_option == s.input_bytes_buffer[2]
             s1 == [s EXCEPT !.input_bytes_buffer = SliceFrom(@, 2)]
             s2 == IF telnet_command = TELNET_DO
                   THEN [s1 EXCEPT
                           !.telnet_suppress_go_ahead =
                               IF telnet_option = TELNET_OPTION_SUPPRESS_GO_AHEAD
                               THEN TRUE ELSE @,
                           !.telnet_echo =
                               IF telnet_option = TELNET_OPTION_ECHO THEN TRUE ELSE @]
                   ELSE IF telnet_command = TELNET_DONT
                   THEN [s1 EXCEPT
                           !.telnet_suppress_go_ahead =
                               IF telnet_option = TELNET_OPTION_SUPPRESS_GO_AHEAD
                               THEN FALSE ELSE @,
                           !.telnet_echo =
                               IF telnet_option = TELNET_OPTION_ECHO THEN FALSE ELSE @]
                   ELSE s1
         IN Ret(s2, FALSE)

\* process_escape that does not wait for the two bytes of the sequence: with
\* fewer buffered it takes the escape byte alone.
process_escape_dropping(s) ==
    IF Len(s.input_bytes_buffer) < 2 THEN Ret(s, FALSE)
    ELSE LET vt100_char_1 == s.input_bytes_buffer[1]
             vt100_char_2 == s.input_bytes_buffer[2]
             s1 == [s EXCEPT !.input_bytes_buffer = SliceFrom(@, 2)]
         IN IF vt100_char_1 # VT100_LEFT_SQUARE_BRACKET THEN Ret(s1, FALSE)
            ELSE IF vt100_char_2 = VT100_CURSOR_LEFT
            THEN Ret(process_cursor_left(Dispatch(s1, "process_cursor_left")), FALSE)
            ELSE IF vt100_char_2 = VT100_CURSOR_RIGHT
            THEN Ret(process_cursor_right(Dispatch(s1, "process_cursor_right")), FALSE)
            ELSE IF vt100_char_2 = VT100_CURSOR_UP
            THEN Ret(process_prev_history(Dispatch(s1, "process_prev_history")), FALSE)
            ELSE IF vt100_char_2 = VT100_CURSOR_DOWN
            THEN Ret(process_next_history(Dispatch(s1, "process_next_history")), FALSE)
            ELSE Ret(s1, FALSE)

process_escape(s) ==
    IF Len(s.input_bytes_buffer) < 2 THEN Ret(s, TRUE)
    ELSE LET vt100_char_1 == s.input_bytes_buffer[1]
             vt100_char_2 == s.input_bytes_buffer[2]
             s1 == [s EXCEPT !.input_bytes_buffer = SliceFrom(@, 2)]
         IN IF vt100_char_1 # VT100_LEFT_SQUARE_BRACKET THEN Ret(s1, FALSE)
            ELSE IF vt100_char_2 = VT100_CURSOR_LEFT
            THEN Ret(process_cursor_left(Dispatch(s1, "process_cursor_left")), FALSE)
            ELSE IF vt100_char_2 = VT100_CURSOR_RIGHT
            THEN Ret(process_cursor_right(Dispatch(s1, "process_cursor_right")), FALSE)
            ELSE IF vt100_char_2 = VT100_CURSOR_UP
            THEN Ret(process_prev_history(Dispatch(s1, "process_prev_history")), FALSE)
            ELSE IF vt100_char_2 = VT100_CURSOR_DOWN
            THEN Ret(process_next_history(Dispatch(s1, "process_next_history")), FALSE)
            ELSE Ret(s1, FALSE)

\* process_question_mark that parses the line as a completed command
\* (context_help left at its default, False).
process_question_mark_executing(s) ==
    LET s1 == print(s, <<>>, TRUE)
        command == DecodeUtf8Ignore(s1.command_buffer)
        s2 == parse_command(s1, command, FALSE)
        s3 == print_prompt(s2)
        s4 == send_bytes(s3, s3.command_buffer)
    IN send_cursor_left(s4, Len(s4.command_buffer) - s4.command_buffer_pos)

\* process_question_mark that takes the line for the help request: the
\* buffer is emptied once the help is printed.
process_question_mark_consuming(s) ==
    LET s1 == print(s, <<>>, TRUE)
        command == DecodeUtf8Ignore(s1.command_buffer)
        s2 == parse_command(s1, command, TRUE)
        s3 == print_prompt(s2)
    IN [s3 EXCEPT !.command_buffer = <<>>, !.command_buffer_pos = 0]

process_question_mark(s) ==
    LET s1 == print(s, <<>>, TRUE)
        command == DecodeUtf8Ignore(s1.command_buffer)
        s2 == parse_command(s1, command, TRUE)
        s3 == print_prompt(s2)
        s4 == send_bytes(s3, s3.command_buffer)
    IN send_cursor_left(s4, Len(s4.command_buffer) - s4.command_buffer_pos)

\* One pass of the while loop's body, for the byte taken off the buffer.
ProcessByte(s, byte) ==
    IF byte = TELNET_NULL THEN s
    ELSE IF byte = LINE_FEED
    THEN process_line_feed(Dispatch(s, "process_line_feed"))
    ELSE IF byte = CARRIAGE_RETURN
    THEN process_carriage_return(Dispatch(s, "process_carriage_return"))
    ELSE IF byte = CONTROL_A
    THEN process_cursor_to_start_of_line(Dispatch(s, "process_cursor_to_start_of_line"))
    ELSE IF byte = CONTROL_E
    THEN process_cursor_to_end_of_line(Dispatch(s, "process_cursor_to_end_of_line"))
    ELSE IF byte = CONTROL_N
    THEN process_next_history(Dispatch(s, "process_next_history"))
    ELSE IF byte = CONTROL_P
    THEN process_prev_history(Dispatch(s, "process_prev_history"))
    ELSE IF byte = TELNET_INTERPRET_AS_COMMAND
    THEN process_telnet_command(Dispatch(s, "process_telnet_command"))
    ELSE IF byte = DELETE
    THEN process_delete(Dispatch(s, "process_delete"))
    ELSE IF byte = ESCAPE
    THEN process_escape(Dispatch(s, "process_escape"))
    ELSE IF byte = QUESTION_MARK
    THEN process_question_mark(Dispatch(s, "process_question_mark"))
    ELSE process_other(Dispatch(s, "process_other"), byte)

RECURSIVE parse_input_bytes(_)
parse_input_bytes(s) ==
    IF s.need_more_input \/ s.input_bytes_buffer = <<>> THEN s
    ELSE LET byte == s.input_bytes_buffer[1]
             s1 == [s EXCEPT !.input_bytes_buffer = Tail(@)]
             s2 == ProcessByte(s1, byte)
             s3 == IF s2.need_more_input
                   THEN [s2 EXCEPT !.input_bytes_buffer = <<byte>> \o @]
                   ELSE s2
         IN parse_input_bytes(s3)

----------------------------------------------------------------------------
(* The session.                                                             *)

\* close without the test `self._tx_fd != self._rx_fd'.
close_both_ends(s) ==
    LET s1 == [s EXCEPT !.registered = FALSE] IN
    IF s1.telnet
    THEN [s1 EXCEPT !.closed_fds = @ \o <<s1.rx_fd, s1.tx_fd>>,
                    !.rx_fd = NONE,
                    !.tx_fd = NONE]
    ELSE [s1 EXCEPT !.exited = TRUE]

close(s) ==
    LET s1 == [s EXCEPT !.registered = FALSE] IN
    IF s1.telnet
    THEN [s1 EXCEPT !.closed_fds = @ \o <<s1.rx_fd>>
                                     \o (IF s1.tx_fd # s1.rx_fd THEN <<s1.tx_fd>>
                                         ELSE <<>>),
                    !.rx_fd = NONE,
                    !.tx_fd = NONE]
    ELSE [s1 EXCEPT !.exited = TRUE]

\* ready_to_read, with `read' what os.read returned (<<>> also stands for
\* the None a failed read is turned into).
ready_to_read(s, read) ==
    IF read = <<>> THEN close(s)
    ELSE parse_input_bytes(
             Ret([s EXCEPT !.input_bytes_buffer = @ \o read], FALSE))

\* __init__(sock, rx_fd, tx_fd, parse_tree, command_handler, log, node):
\* the session after construction.  `sock' tells whether a socket was given.
Open(sock, rx, tx, tree) ==
    LET s0 == [telnet |-> sock,
               rx_fd |-> rx,
               tx_fd |-> tx,
               parse_tree |-> tree,
               input_bytes_buffer |-> <<>>,
               command_buffer |-> <<>>,
               command_buffer_pos |-> 0,
               command_history |-> <<>>,
               command_history_pos |-> NONE,
               telnet_suppress_go_ahead |-> FALSE,
               telnet_echo |-> FALSE,
               registered |-> FALSE,
               exited |-> FALSE,
               closed_fds |-> <<>>,
               need_more_input |-> FALSE,
               written |-> <<>>,
               calls |-> <<>>,
               dispatched |-> <<>>,
               completed |-> <<>>]
        s1 == IF s0.telnet
              THEN send_will_echo(send_will_suppress_go_ahead(s0))
              ELSE s0
        s2 == [s1 EXCEPT !.registered = TRUE]
    IN print_prompt(s2)

\* The session object as a handler call finds it: nothing written or
\* invoked yet by this call.
Self ==
    [telnet |-> telnet,
     rx_fd |-> rx_fd,
     tx_fd |-> tx_fd,
     parse_tree |-> parse_tree,
     input_bytes_buffer |-> input_bytes_buffer,
     command_buffer |-> command_buffer,
     command_buffer_pos |-> command_buffer_pos,
     command_history |-> command_history,
     command_history_pos |-> command_history_pos,
     telnet_suppress_go_ahead |-> telnet_suppress_go_ahead,
     telnet_echo |-> telnet_echo,
     registered |-> registered,
     exited |-> exited,
     closed_fds |-> closed_fds,
     need_more_input |-> FALSE,
     written |-> <<>>,
     calls |-> <<>>,
     dispatched |-> <<>>,
     completed |-> <<>>]

\* The history keys among the methods a call ran.
HistoryKeys == {"process_prev_history", "process_next_history"}

Browses(s) == \E i \in 1..Len(s.dispatched) : s.dispatched[i] \in HistoryKeys

\* The run of literal bytes after a call that left the session as `s': a
\* call that decodes one literal byte extends the run, a call that only
\* completes a line starts an empty one, any other call ends it.
Typed(s, read) ==
    IF s.dispatched = <<"process_other">>
    THEN IF typed = <<NONE>> THEN typed ELSE typed \o read
    ELSE IF Len(s.dispatched) = 1 /\ Len(s.completed) = 1 THEN <<>>
    ELSE <<NONE>>

\* The whole of the session's input and output where it is not followed,
\* and after a call that read `read' and left the session as `s' where it is.
NotFollowed == [followed |-> FALSE, read |-> <<>>, written |-> <<>>,
                completed |-> <<>>]

SinceOpen(s, read) ==
    IF since_open.followed
    THEN [followed |-> TRUE,
          read |-> since_open.read \o read,
          written |-> since_open.written \o s.written,
          completed |-> since_open.completed \o s.completed]
    ELSE since_open

\* The scheduler calls ready_to_read only of a registered handler of a
\* running process.
Scheduled == registered /\ ~exited

\* The step of a call of ready_to_read in which os.read returned `read' and
\* which left the session as `s'.
ReadyToRead(read, s) ==
       /\ telnet' = s.telnet
       /\ rx_fd' = s.rx_fd
       /\ tx_fd' = s.tx_fd
       /\ telnet_suppress_go_ahead' = s.telnet_suppress_go_ahead
       /\ telnet_echo' = s.telnet_echo
       /\ input_bytes_buffer' = s.input_bytes_buffer
       /\ command_buffer' = s.command_buffer
       /\ command_buffer_pos' = s.command_buffer_pos
       /\ command_history' = s.command_history
       /\ command_history_pos' = s.command_history_pos
       /\ registered' = s.registered
       /\ exited' = s.exited
       /\ closed_fds' = s.closed_fds
       /\ written' = s.written
       /\ parse_tree' = s.parse_tree
       /\ calls' = s.calls
       /\ dispatched' = s.dispatched
       /\ completed' = s.completed
       /\ new_input_bytes' = read
       /\ browsed' = (browsed \/ Browses(s))
       /\ entered' = IF browsed \/ Browses(s) THEN <<>>
                     ELSE entered \o SelectSeq(s.completed, LAMBDA c : c # <<>>)
       /\ typed' = Typed(s, read)
       /\ since_open' = SinceOpen(s, read)

----------------------------------------------------------------------------
(* The command trees the sessions are opened with.                          *)

\* {"set": {"$value": set_value}}
SetTree ==
    Branch(<< <<(<<115, 101, 116>>),
                Branch(<< <<(<<36, 118, 97, 108, 117, 101>>), Action("set_value")>> >>)>> >>)

\* {"show": show, "shutdown": shutdown}
ShowTree ==
    Branch(<< <<(<<115, 104, 111, 119>>), Action("show")>>,
              <<(<<115, 104, 117, 116, 100, 111, 119, 110>>), Action("shutdown")>> >>)

\* {"show": {"": show, "$interface": show_interface},
\*  "shutdown": shutdown,
\*  "sh": sh,
\*  "set": {"$value": set_value, "verbose": set_verbose, "$v": set_v},
\*  "$shape": shape,
\*  "$s": s}
FullTree ==
    Branch(<< <<(<<115, 104, 111, 119>>),
                Branch(<< <<(<<>>), Action("show")>>,
                          <<(<<36, 105, 110, 116, 101, 114, 102, 97, 99, 101>>),
                            Action("show_interface")>> >>)>>,
              <<(<<115, 104, 117, 116, 100, 111, 119, 110>>), Action("shutdown")>>,
              <<(<<115, 104>>), Action("sh")>>,
              <<(<<115, 101, 116>>),
                Branch(<< <<(<<36, 118, 97, 108, 117, 101>>), Action("set_value")>>,
                          <<(<<118, 101, 114, 98, 111, 115, 101>>), Action("set_verbose")>>,
                          <<(<<36, 118>>), Action("set_v")>> >>)>>,
              <<(<<36, 115, 104, 97, 112, 101>>), Action("shape")>>,
              <<(<<36, 115>>), Action("s")>> >>)

----------------------------------------------------------------------------
(* The peer.  It sends key sequences, and a read returns any non-empty      *)
(* part of what has arrived: the rest of the sequence the input buffer is   *)
(* waiting for, or the start of a new one.                                  *)

IsProperPrefix(p, k) == Len(p) < Len(k) /\ SubSeq(k, 1, Len(p)) = p

Chunks(key_sequences, pending) ==
    UNION {{SubSeq(k, Len(pending) + 1, n) : n \in (Len(pending) + 1)..Len(k)} :
           k \in {k \in key_sequences : IsProperPrefix(pending, k)}}

\* The three descriptors' arrangements: stdin/stdout, one socket descriptor
\* for both directions, two descriptors of a network session.
SessionKinds == {<<FALSE, 0, 1>>, <<TRUE, 4, 4>>, <<TRUE, 4, 5>>}

\* A session of kind `kind' opened with `tree', in which `line' has been
\* typed since the prompt (nothing of the typing is kept in the traces of the
\* last call).
InitSession(kind, tree, line) ==
        LET s == Open(kind[1], kind[2], kind[3], tree) IN
        /\ telnet = s.telnet
        /\ rx_fd = s.rx_fd
        /\ tx_fd = s.tx_fd
        /\ telnet_suppress_go_ahead = s.telnet_suppress_go_ahead
        /\ telnet_echo = s.telnet_echo
        /\ input_bytes_buffer = s.input_bytes_buffer
        /\ command_buffer = s.command_buffer \o line
        /\ command_buffer_pos = s.command_buffer_pos + Len(line)
        /\ command_history = s.command_history
        /\ command_history_pos = s.command_history_pos
        /\ registered = s.registered
        /\ exited = s.exited
        /\ closed_fds = s.closed_fds
        /\ written = s.written
        /\ parse_tree = s.parse_tree
        /\ calls = s.calls
        /\ dispatched = s.dispatched
        /\ completed = s.completed
        /\ new_input_bytes = <<>>
        /\ browsed = FALSE
        /\ entered = <<>>
        /\ typed = line

InitTyped(kind, tree, line) ==
    InitSession(kind, tree, line) /\ since_open = NotFollowed

InitOpen(kinds, trees) ==
    \E kind \in kinds, tree \in trees : InitTyped(kind, tree, <<>>)

----------------------------------------------------------------------------
(* Spec: the editor, the decoder and the session's life, on a small         *)
(* keyboard.                                                                *)

\* The bytes the command buffer and the history may hold together.
MaxStored == 3

RECURSIVE TotalLen(_)
TotalLen(lines) == IF lines = <<>> THEN 0 ELSE Len(Head(lines)) + TotalLen(Tail(lines))

WithinStored(s) == Len(s.command_buffer) + TotalLen(s.command_history) <= MaxStored

Keys ==
    { <<97>>, <<98>>,                                  \* a, b
      <<TELNET_NULL>>, <<LINE_FEED>>,
      <<CARRIAGE_RETURN, LINE_FEED>>, <<CARRIAGE_RETURN, 97>>,
      <<CONTROL_A>>, <<CONTROL_E>>, <<CONTROL_N>>, <<CONTROL_P>>,
      <<DELETE>>, <<QUESTION_MARK>>,
      <<ESCAPE, VT100_LEFT_SQUARE_BRACKET, VT100_CURSOR_UP>>,
      <<ESCAPE, VT100_LEFT_SQUARE_BRACKET, VT100_CURSOR_DOWN>>,
      <<ESCAPE, VT100_LEFT_SQUARE_BRACKET, VT100_CURSOR_RIGHT>>,
      <<ESCAPE, VT100_LEFT_SQUARE_BRACKET, VT100_CURSOR_LEFT>>,
      <<ESCAPE, 97, VT100_CURSOR_LEFT>>,
      <<TELNET_INTERPRET_AS_COMMAND, TELNET_DO, TELNET_OPTION_ECHO>>,
      <<TELNET_INTERPRET_AS_COMMAND, TELNET_DONT, TELNET_OPTION_ECHO>> }

Init == InitOpen({<<FALSE, 0, 1>>, <<TRUE, 4, 4>>}, {ShowTree})

Read ==
    /\ Scheduled
    /\ \E read \in Chunks(Keys, input_bytes_buffer) :
           \E s \in {ready_to_read(Self, read)} :
               WithinStored(s) /\ ReadyToRead(read, s)

ReadNothing ==
    /\ Scheduled
    /\ \E s \in {ready_to_read(Self, <<>>)} : ReadyToRead(<<>>, s)

Next == Read \/ ReadNothing

Spec == Init /\ [][Next]_vars

----------------------------------------------------------------------------
(* SpecHist: the history at its capacity.  The peer types one-byte lines,   *)
(* mostly the line "a", and walks the newest entries of the history.        *)

\* How many entries beyond MAX_HISTORY the runs followed may reach.
HistOver == 1

\* How far below the newest entry the peer walks.
BrowseDepth == 2

HistKeys ==
    { <<97>>, <<98>>, <<LINE_FEED>>, <<CARRIAGE_RETURN, LINE_FEED>>,
      <<CONTROL_P>>, <<CONTROL_N>> }

HistLines == { <<97>>, <<98>> }

\* The entries of `history' that are not the line "a".
Marked(history) == {i \in 1..Len(history) : history[i] # <<97>>}

WithinHist(s) ==
    /\ s.command_buffer \in HistLines \cup {<<>>}
    /\ Len(s.command_history) <= MAX_HISTORY + HistOver
    /\ Cardinality(Marked(s.command_history)) <= 1
    /\ s.command_history_pos # NONE =>
           s.command_history_pos >= Len(s.command_history) - BrowseDepth
    /\ Len(entered) + Len(SelectSeq(s.completed, LAMBDA c : c # <<>>)) <= MAX_HISTORY + 1

InitHist == InitOpen({<<FALSE, 0, 1>>}, {ShowTree})

ReadHist ==
    /\ Scheduled
    /\ \E read \in Chunks(HistKeys, input_bytes_buffer) :
           \E s \in {ready_to_read(Self, read)} :
               WithinHist(s) /\ ReadyToRead(read, s)

NextHist == ReadHist

SpecHist == InitHist /\ [][NextHist]_vars

----------------------------------------------------------------------------
(* SpecClose: the end of a session, for the three arrangements of          *)
(* descriptors.                                                             *)

CloseKeys ==
    { <<97>>, <<98>>, <<LINE_FEED>>, <<DELETE>>, <<CARRIAGE_RETURN, LINE_FEED>>,
      <<ESCAPE, VT100_LEFT_SQUARE_BRACKET, VT100_CURSOR_LEFT>> }

InitClose == InitOpen(SessionKinds, {ShowTree})

ReadClose ==
    /\ Scheduled
    /\ \E read \in Chunks(CloseKeys, input_bytes_buffer) :
           \E s \in {ready_to_read(Self, read)} :
               WithinStored(s) /\ ReadyToRead(read, s)

NextClose == ReadClose \/ ReadNothing

SpecClose == InitClose /\ [][NextClose]_vars

----------------------------------------------------------------------------
(* SpecParse: the command tree parser.  A line of words has been typed;    *)
(* the peer completes it or asks for help.                                  *)

\* The words a typed line may hold.
MaxTokens == 3

WordSet == <<115, 101, 116>>
WordS == <<115>>
WordValue == <<118, 97, 108, 117, 101>>
WordV == <<118>>
Word42 == <<52, 50>>
WordDollarValue == <<36, 118, 97, 108, 117, 101>>
WordDollarV == <<36, 118>>
WordDollar == <<36>>
WordSh == <<115, 104>>
WordSho == <<115, 104, 111>>
WordShow == <<115, 104, 111, 119>>
WordShu == <<115, 104, 117>>
WordShutdown == <<115, 104, 117, 116, 100, 111, 119, 110>>
WordX == <<120>>
WordVe == <<118, 101>>
WordI == <<105>>
WordSha == <<115, 104, 97>>

Words(tree) ==
    IF tree = SetTree
    THEN {WordSet, WordS, WordValue, WordV, Word42, WordDollarValue, WordDollarV,
          WordDollar}
    ELSE IF tree = ShowTree
    THEN {WordS, WordSh, WordSho, WordShow, WordShu, WordShutdown, WordX}
    ELSE {WordS, WordSh, WordShow, WordSet, WordV, WordVe, WordI, WordSha, WordX}

\* The words of a line, separated by one space.
RECURSIVE Join(_)
Join(tokens) ==
    IF tokens = <<>> THEN <<>>
    ELSE IF Len(tokens) = 1 THEN tokens[1]
    ELSE tokens[1] \o <<32>> \o Join(Tail(tokens))

Lines(words) == UNION {[1..n -> words] : n \in 0..MaxTokens}

ParseKeys == { <<LINE_FEED>>, <<CARRIAGE_RETURN, LINE_FEED>>, <<QUESTION_MARK>> }

InitParse ==
    \E tree \in {SetTree, ShowTree, FullTree} :
        \E tokens \in Lines(Words(tree)) :
            InitTyped(<<FALSE, 0, 1>>, tree, Join(tokens))

ReadParse ==
    /\ Scheduled
    /\ \E read \in Chunks(ParseKeys, input_bytes_buffer) :
           \E s \in {ready_to_read(Self, read)} : ReadyToRead(read, s)

NextParse == ReadParse

SpecParse == InitParse /\ [][NextParse]_vars

----------------------------------------------------------------------------
(* SpecPrev: the walk to the oldest entry.  The peer types lines; from the  *)
(* first history key on it sends history-previous only, and it goes on      *)
(* sending.                                                                 *)

PrevKeys ==
    { <<CONTROL_P>>, <<ESCAPE, VT100_LEFT_SQUARE_BRACKET, VT100_CURSOR_UP>> }

TypeKeys == { <<97>>, <<98>>, <<LINE_FEED>> }

InitPrev == InitOpen({<<FALSE, 0, 1>>}, {ShowTree})

ReadPrev ==
    /\ Scheduled
    /\ \E read \in Chunks(IF browsed THEN PrevKeys ELSE PrevKeys \cup TypeKeys,
                          input_bytes_buffer) :
           \E s \in {ready_to_read(Self, read)} :
               WithinStored(s) /\ ReadyToRead(read, s)

NextPrev == ReadPrev

\* The peer goes on sending: weak fairness of NextPrev.  A step of NextPrev
\* that changes the state is possible exactly while the session is scheduled
\* (the first byte of an escape sequence always changes input_bytes_buffer),
\* so WF_vars(NextPrev) is written with Scheduled for ENABLED <<NextPrev>>_vars.
PeerKeepsSending == ([]<>(~Scheduled)) \/ ([]<><<NextPrev>>_vars)

SpecPrev == InitPrev /\ [][NextPrev]_vars /\ PeerKeepsSending

----------------------------------------------------------------------------
(* SpecTelnet: the option negotiation.  The peer sends IAC sequences with   *)
(* every command and option of a small set, between the bytes of a line.    *)

\* A command and an option the code does not know (SB, TERMINAL-TYPE).
TelnetCommands == {TELNET_WILL, TELNET_WONT, TELNET_DO, TELNET_DONT, 250}

TelnetOptions == {TELNET_OPTION_ECHO, TELNET_OPTION_SUPPRESS_GO_AHEAD, 24}

TelnetKeys ==
    {<<TELNET_INTERPRET_AS_COMMAND, c, o>> : c \in TelnetCommands, o \in TelnetOptions}
    \cup { <<97>>, <<LINE_FEED>>, <<CONTROL_A>>, <<DELETE>>,
           <<ESCAPE, VT100_LEFT_SQUARE_BRACKET, VT100_CURSOR_LEFT>> }

InitTelnet == InitOpen({<<FALSE, 0, 1>>, <<TRUE, 4, 5>>}, {ShowTree})

ReadTelnet ==
    /\ Scheduled
    /\ \E read \in Chunks(TelnetKeys, input_bytes_buffer) :
           \E s \in {ready_to_read(Self, read)} :
               WithinStored(s) /\ ReadyToRead(read, s)

NextTelnet == ReadTelnet

SpecTelnet == InitTelnet /\ [][NextTelnet]_vars

----------------------------------------------------------------------------
(* SpecSplit: the byte stream cut into reads.  Every stream of up to        *)
(* MaxStream bytes over a small alphabet arrives in every division into     *)
(* non-empty reads, and the whole of the input and output is followed.      *)

MaxStream == 4

\* A literal byte, the line ends, the bytes of ESC [ D and of IAC DO ECHO
\* (the option's byte is also Ctrl-A, and '[' and 'D' are also literal).
SplitBytes ==
    {97, CARRIAGE_RETURN, LINE_FEED, ESCAPE, VT100_LEFT_SQUARE_BRACKET,
     VT100_CURSOR_LEFT, TELNET_INTERPRET_AS_COMMAND, TELNET_DO,
     TELNET_OPTION_ECHO}

\* What os.read may return: 1 to n bytes.
SplitReads(n) == UNION {[1..k -> SplitBytes] : k \in 1..n}

InitSplit ==
    /\ \E kind \in {<<FALSE, 0, 1>>, <<TRUE, 4, 4>>} :
           InitSession(kind, ShowTree, <<>>)
    /\ since_open = [followed |-> TRUE, read |-> <<>>, written |-> written,
                     completed |-> <<>>]

ReadSplit ==
    /\ Scheduled
    /\ \E read \in SplitReads(MaxStream - Len(since_open.read)) :
           \E s \in {ready_to_read(Self, read)} : ReadyToRead(read, s)

NextSplit == ReadSplit

SpecSplit == InitSplit /\ [][NextSplit]_vars

----------------------------------------------------------------------------
(* The properties.                                                          *)

\* The last call decoded one key, and `name' is the method that handled it.
Ran(name) == dispatched = <<name>> \/ dispatched = <<"process_escape", name>>

\* The same of the call a step makes.
Runs(name) == dispatched' = <<name>> \/ dispatched' = <<"process_escape", name>>

Bytes(seq) == {seq[i] : i \in 1..Len(seq)}

\* The last call completed one line and did nothing else; its tokens.
CompletedLine == Len(completed) = 1 /\ Len(dispatched) = 1

Tokens == Split(DecodeUtf8Ignore(completed[1]))

\* What a local session writes for print(message) after the echo of the
\* line end.
AfterLineEnd(message) == <<CARRIAGE_RETURN, LINE_FEED>> \o message

AmbiguousInput(token) ==
    <<65, 109, 98, 105, 103, 117, 111, 117, 115, 32, 105, 110, 112, 117, 116, 32, 34>> \o token \o <<34, 44, 32, 99, 97, 110, 100, 105, 100, 97, 116, 101, 115, 58>>

UnrecognizedInput(token) ==
    <<85, 110, 114, 101, 99, 111, 103, 110, 105, 122, 101, 100, 32, 105, 110, 112, 117, 116, 32, 34>> \o token \o <<34, 44, 32, 101, 120, 112, 101, 99, 116, 101, 100, 58>>

\* ---- C1 ----------------------------------------------------------------

\* C1: in every reachable state the history holds at most MAX_HISTORY (100)
\* entries.
C1_HistoryAtMostMax == Len(command_history) <= MAX_HISTORY

\* ---- C2 ----------------------------------------------------------------

\* The last call inserted a byte or deleted one.
Edited ==
    \/ dispatched = <<"process_other">>
    \/ dispatched = <<"process_delete">> /\ written # <<BELL>>

\* C2, as stated: after an insertion or an effective delete the history
\* cursor is live (None), whatever it was before.
C2_EditingEndsBrowsing == Edited => command_history_pos = NONE

\* A step that inserts a byte or deletes one.
EditStep ==
    \/ dispatched' = <<"process_other">>
    \/ dispatched' = <<"process_delete">> /\ command_buffer_pos > 0

\* C2, amended: an insertion or an effective delete leaves the history cursor
\* and the history as they were; a history-next decoded while the cursor
\* points at an entry rings no bell: it shows the next entry, or from the
\* newest entry the empty line with the cursor live; and the cursor goes from
\* an entry to live only in a call that decodes history-next or completes a
\* non-empty line.
C2_EditingKeepsBrowsing ==
    [][ /\ EditStep =>
              /\ command_history_pos' = command_history_pos
              /\ command_history' = command_history
        /\ (Runs("process_next_history") /\ command_history_pos # NONE) =>
              /\ BELL \notin Bytes(written')
              /\ command_history' = command_history
              /\ IF command_history_pos + 1 >= Len(command_history)
                 THEN command_history_pos' = NONE /\ command_buffer' = <<>>
                 ELSE /\ command_history_pos' = command_history_pos + 1
                      /\ command_buffer' = command_history[command_history_pos + 2]
        /\ (command_history_pos # NONE /\ command_history_pos' = NONE) =>
              \/ \E i \in 1..Len(dispatched') : dispatched'[i] = "process_next_history"
              \/ \E i \in 1..Len(completed') : completed'[i] # <<>>
      ]_vars

\* C2, the case: a byte was inserted or deleted while the history cursor
\* points at an entry, and the cursor still does.
C2_EditedWhileBrowsing ==
    /\ Edited
    /\ command_history_pos # NONE
    /\ command_buffer # command_history[command_history_pos + 1]

\* ---- C3 ----------------------------------------------------------------

\* C3, as stated: under {"set": {"$value": f}} a completed line "set t"
\* invokes f once with {"value": t}, for every token t.
C3_ParameterMatchesAnyToken ==
    (parse_tree = SetTree /\ CompletedLine /\ Len(Tokens) = 2 /\ Tokens[1] = WordSet) =>
        calls = << [fn |-> "set_value", args |-> << {<<WordValue, Tokens[2]>>} >>] >>

\* The line names the parameter and gives it a value: "set", the name
\* "value", and a value, the first two possibly abbreviated.
NamesValue(tokens) ==
    /\ Len(tokens) = 3
    /\ StartsWith(WordSet, tokens[1])
    /\ StartsWith(WordValue, tokens[2])

\* C3, amended: under {"set": {"$value": f}} the key $value is selected by a
\* token that is a prefix of its name, and binds the token that follows:
\* a completed line invokes f with a parameter mapping exactly when it is
\* "set value t" (set and value possibly abbreviated), once and with
\* {"value": t}; "set 42" invokes nothing and reports the unrecognized
\* input "42".
C3_ParameterByName ==
    (parse_tree = SetTree /\ CompletedLine) =>
        /\ NamesValue(Tokens) =>
              calls = << [fn |-> "set_value", args |-> << {<<WordValue, Tokens[3]>>} >>] >>
        /\ ~NamesValue(Tokens) => \A i \in 1..Len(calls) : calls[i].args = <<>>
        /\ Tokens = <<WordSet, Word42>> =>
              /\ calls = <<>>
              /\ StartsWith(written, AfterLineEnd(UnrecognizedInput(Word42)))

\* C3, the case: "set value 42" was completed and f was invoked.
C3_SetValue42 ==
    /\ parse_tree = SetTree
    /\ CompletedLine
    /\ Tokens = <<WordSet, WordValue, Word42>>
    /\ calls # <<>>

\* ---- C4 ----------------------------------------------------------------

RootKeys == {parse_tree.items[i][1] : i \in 1..Len(parse_tree.items)}

\* The text a key is typed as: a parameter key without its sigil.
KeyName(key) == IF key # <<>> /\ key[1] = 36 THEN Tail(key) ELSE key

\* The keys of the root a token abbreviates.
Abbreviated(token) == {key \in RootKeys : StartsWith(KeyName(key), token)}

\* The keys a first token selects, in the order of precedence C4 states:
\* the literal key it equals, else every key it is a prefix of.
SelectedAsStated(token) ==
    IF token \in RootKeys THEN {token} ELSE Abbreviated(token)

\* The same with the parameter key the token names exactly in between.
Selected(token) ==
    IF token \in RootKeys THEN {token}
    ELSE IF (<<36>> \o token) \in RootKeys THEN {<<36>> \o token}
    ELSE Abbreviated(token)

\* The Action a one-word line runs when the word selects the keyword `key':
\* the key's own Action, or the one below its "" key.
Target(key) ==
    LET subtree == Lookup(parse_tree, key) IN
    IF callable(subtree) THEN <<[fn |-> subtree.fn, args |-> <<>>]>>
    ELSE IF HasKey(subtree, <<>>) /\ callable(Lookup(subtree, <<>>))
         THEN <<[fn |-> Lookup(subtree, <<>>).fn, args |-> <<>>]>>
         ELSE <<>>

\* What the first token of a completed line leads to, given the keys it
\* selects: the ambiguous-input error and no call for two or more, the
\* unrecognized-input error for none, and for one keyword that is the whole
\* line the call of its Action.
FirstTokenRule(selected) ==
    /\ Cardinality(selected) > 1 =>
          /\ calls = <<>>
          /\ StartsWith(written, AfterLineEnd(AmbiguousInput(Tokens[1])))
    /\ Cardinality(selected) = 0 =>
          /\ calls = <<>>
          /\ StartsWith(written, AfterLineEnd(UnrecognizedInput(Tokens[1])))
    /\ (Cardinality(selected) = 1 /\ Len(Tokens) = 1) =>
          /\ ~StartsWith(written, AfterLineEnd(AmbiguousInput(Tokens[1])))
          /\ ~StartsWith(written, AfterLineEnd(UnrecognizedInput(Tokens[1])))
          /\ \A key \in selected : key[1] # 36 => calls = Target(key)

\* A line was completed under one of the trees with the keys show and
\* shutdown at the root.
CompletedAtBranch ==
    /\ parse_tree \in {ShowTree, FullTree}
    /\ CompletedLine
    /\ Tokens # <<>>

Called(fn) == << [fn |-> fn, args |-> <<>>] >>

\* C4, as stated: a token equal to a literal key selects it alone, any other
\* token selects the keys it is a prefix of, two or more of them being the
\* ambiguous-input error; under show and shutdown "sho" is ambiguous with two
\* candidates, "show" runs show and "shu" runs shutdown.
C4_ShoAmbiguous ==
    /\ CompletedAtBranch => FirstTokenRule(SelectedAsStated(Tokens[1]))
    /\ (parse_tree = ShowTree /\ CompletedLine) =>
          /\ Tokens = <<WordSho>> =>
                /\ calls = <<>>
                /\ StartsWith(written, AfterLineEnd(AmbiguousInput(WordSho)))
          /\ Tokens = <<WordShow>> => calls = Called("show")
          /\ Tokens = <<WordShu>> => calls = Called("shutdown")

\* C4, amended: a token equal to a literal key selects it alone; else a token
\* that is the exact name of a parameter key selects that key alone; else the
\* token selects the keys it is a prefix of (keyword and parameter keys
\* together): one is an abbreviation, two or more the ambiguous-input error
\* with no call.  Under show and shutdown "sho" is a prefix of show only and
\* runs show, "sh" is ambiguous with two candidates, "show" runs show and
\* "shu" runs shutdown.
C4_MatchingPrecedence ==
    /\ CompletedAtBranch => FirstTokenRule(Selected(Tokens[1]))
    /\ (parse_tree = ShowTree /\ CompletedLine) =>
          /\ Tokens = <<WordSho>> => calls = Called("show")
          /\ Tokens = <<WordSh>> =>
                /\ Cardinality(Selected(WordSh)) = 2
                /\ calls = <<>>
                /\ StartsWith(written, AfterLineEnd(AmbiguousInput(WordSh)))
          /\ Tokens = <<WordShow>> => calls = Called("show")
          /\ Tokens = <<WordShu>> => calls = Called("shutdown")

\* C4, the case: "sho" was completed under show and shutdown and ran show.
C4_ShoRunsShow ==
    /\ parse_tree = ShowTree
    /\ CompletedLine
    /\ Tokens = <<WordSho>>
    /\ calls = Called("show")

\* ---- C5 ----------------------------------------------------------------

\* C5: a call that decodes '?' invokes no Action callback, whatever the tree
\* and the line, also when the line's tokens lead exactly to an Action.
C5_HelpInvokesNothing ==
    (\E i \in 1..Len(dispatched) : dispatched[i] = "process_question_mark") =>
        calls = <<>>

\* C5, the case: '?' was decoded after "show", which leads to the Action
\* show.
C5_HelpAtAction ==
    /\ dispatched = <<"process_question_mark">>
    /\ parse_tree = ShowTree
    /\ command_buffer = WordShow

\* ---- C6 ----------------------------------------------------------------

\* C6: when must_echo does not hold (a network session without DO ECHO), a
\* call that inserts a byte writes none of the line's bytes, and a call that
\* completes a line writes no CR; on a local session must_echo holds.
C6_EchoOnlyIfMustEcho ==
    /\ (~must_echo(Self) /\ dispatched = <<"process_other">>) =>
           Bytes(written) \cap Bytes(command_buffer) = {}
    /\ (~must_echo(Self) /\ CompletedLine) => CARRIAGE_RETURN \notin Bytes(written)
    /\ ~telnet => must_echo(Self)

\* ---- C7 ----------------------------------------------------------------

\* The buffer starts with ESC or IAC and holds fewer than two bytes after
\* it, or is a lone CR.
Incomplete(bytes) ==
    /\ bytes # <<>>
    /\ \/ bytes[1] \in {ESCAPE, TELNET_INTERPRET_AS_COMMAND} /\ Len(bytes) < 3
       \/ bytes = <<CARRIAGE_RETURN>>

HeadMethod(byte) ==
    IF byte = ESCAPE THEN "process_escape"
    ELSE IF byte = TELNET_INTERPRET_AS_COMMAND THEN "process_telnet_command"
    ELSE "process_carriage_return"

\* C7: a call whose read leaves an incomplete sequence at the head of the
\* input buffer keeps the whole buffer, changes neither the line, the cursor,
\* the history, its cursor nor the negotiated flags, and writes and invokes
\* nothing; a call that finds bytes left in the input buffer decodes from
\* the head byte that was left, and the arrow key that arrives in parts is
\* decoded as that key.
C7_DeferWithoutEffect ==
    [][ LET buffered == input_bytes_buffer \o new_input_bytes' IN
        /\ (new_input_bytes' # <<>> /\ Incomplete(buffered)) =>
              /\ input_bytes_buffer' = buffered
              /\ UNCHANGED <<command_buffer, command_buffer_pos, command_history,
                             command_history_pos, telnet_echo,
                             telnet_suppress_go_ahead>>
              /\ written' = <<>>
              /\ calls' = <<>>
              /\ completed' = <<>>
        /\ (new_input_bytes' # <<>> /\ input_bytes_buffer # <<>>) =>
              /\ Incomplete(input_bytes_buffer)
              /\ dispatched' # <<>>
              /\ dispatched'[1] = HeadMethod(input_bytes_buffer[1])
              /\ buffered = <<ESCAPE, VT100_LEFT_SQUARE_BRACKET, VT100_CURSOR_LEFT>> =>
                    /\ dispatched' = <<"process_escape", "process_cursor_left">>
                    /\ input_bytes_buffer' = <<>>
      ]_vars

\* C7, the case: ESC waited for more, "[" arrived and both wait, next to a
\* line that is not empty.
C7_EscapeDeferredTwice ==
    /\ input_bytes_buffer = <<ESCAPE, VT100_LEFT_SQUARE_BRACKET>>
    /\ new_input_bytes = <<VT100_LEFT_SQUARE_BRACKET>>
    /\ command_buffer # <<>>
    /\ written = <<>>

\* ---- C8 ----------------------------------------------------------------

Count(seq, x) == Cardinality({i \in 1..Len(seq) : seq[i] = x})

\* C8: a call whose read fails or returns nothing decodes nothing and
\* closes the session: the session is unregistered; a network session closes
\* each distinct descriptor once and the process goes on; a local session
\* closes no descriptor and the process exits.
C8_FailedReadCloses ==
    [][ (registered /\ new_input_bytes' = <<>>) =>
           /\ ~registered'
           /\ dispatched' = <<>> /\ calls' = <<>> /\ completed' = <<>>
           /\ written' = <<>>
           /\ UNCHANGED <<input_bytes_buffer, command_buffer, command_buffer_pos,
                          command_history, command_history_pos>>
           /\ IF telnet
              THEN /\ \A fd \in {rx_fd, tx_fd} : Count(closed_fds', fd) = 1
                   /\ Len(closed_fds') = Cardinality({rx_fd, tx_fd})
                   /\ ~exited'
              ELSE /\ closed_fds' = <<>>
                   /\ exited'
      ]_vars

\* C8, the case: a network session with one descriptor for both directions
\* was closed while bytes waited in its input buffer.
C8_ClosedOneDescriptor ==
    /\ telnet
    /\ ~registered
    /\ closed_fds = <<4>>
    /\ input_bytes_buffer # <<>>

\* ---- C9 ----------------------------------------------------------------

\* C9: the cursor is within 0..len(command_buffer) in every state; cursor
\* left at 0 and cursor right at the end of the line leave the cursor (and
\* the line) unchanged and write one bell.
C9_CursorInLine ==
    /\ [](0 <= command_buffer_pos /\ command_buffer_pos <= Len(command_buffer))
    /\ [][ /\ (Runs("process_cursor_left") /\ command_buffer_pos = 0) =>
                 /\ command_buffer_pos' = 0
                 /\ command_buffer' = command_buffer
                 /\ written' = <<BELL>>
           /\ (Runs("process_cursor_right")
                   /\ command_buffer_pos = Len(command_buffer)) =>
                 /\ command_buffer_pos' = command_buffer_pos
                 /\ command_buffer' = command_buffer
                 /\ written' = <<BELL>>
         ]_vars

\* C9, the case: cursor right was decoded at the end of a line that is not
\* empty, and rang the bell.
C9_BellAtEndOfLine ==
    /\ Ran("process_cursor_right")
    /\ written = <<BELL>>
    /\ command_buffer # <<>>
    /\ command_buffer_pos = Len(command_buffer)

\* ---- C10 ---------------------------------------------------------------

\* The entries of `history' kept when it is cut to MAX_HISTORY from the front.
Newest(history) ==
    SubSeq(history,
           (IF Len(history) > MAX_HISTORY THEN Len(history) - MAX_HISTORY ELSE 0) + 1,
           Len(history))

\* C10: a call that completes a line takes the whole command buffer as the
\* line and leaves the buffer empty with the cursor at 0; a non-empty line is
\* appended to the history, which is then cut to its newest 100 entries in
\* their order, and the history cursor is live; an empty line leaves the
\* history as it was.  As long as no history key was decoded, the history is
\* the lines entered, and after 101 of them the lines 2..101.
C10_HistoryIsFifo ==
    /\ [][ Len(completed') = 1 =>
              /\ completed'[1] = command_buffer
              /\ command_buffer' = <<>>
              /\ command_buffer_pos' = 0
              /\ IF command_buffer # <<>>
                 THEN /\ command_history' =
                             Newest(Append(command_history, command_buffer))
                      /\ command_history_pos' = NONE
                 ELSE command_history' = command_history
         ]_vars
    /\ []((~browsed /\ Len(entered) <= MAX_HISTORY) => command_history = entered)
    /\ [](Len(entered) = MAX_HISTORY + 1 =>
              /\ command_history = Tail(entered)
              /\ Len(command_history) = MAX_HISTORY)

\* C10, the case: the 101st line was completed, the first, "b", is gone and
\* the 101st is the newest entry.
C10_FirstLineEvicted ==
    /\ Len(entered) = MAX_HISTORY + 1
    /\ entered[1] = <<98>>
    /\ Len(completed) = 1
    /\ command_history[MAX_HISTORY] = entered[MAX_HISTORY + 1]
    /\ \A i \in 1..Len(command_history) : command_history[i] = <<97>>

\* ---- C11 ---------------------------------------------------------------

\* C11: a call that inserts the byte b with the buffer B and the cursor at p
\* leaves the buffer B[0:p] + b + B[p:] and the cursor at p + 1; and while
\* only literal bytes were decoded since the last line end, the buffer is
\* the bytes typed and the cursor is at its end.
C11_InsertAtCursor ==
    /\ [][ dispatched' = <<"process_other">> =>
              LET b == new_input_bytes'[Len(new_input_bytes')]
                  p == command_buffer_pos
              IN /\ command_buffer' = SubSeq(command_buffer, 1, p) \o <<b>>
                                      \o SubSeq(command_buffer, p + 1, Len(command_buffer))
                 /\ command_buffer_pos' = p + 1
         ]_vars
    /\ [](typed # <<NONE>> =>
              /\ command_buffer = typed
              /\ command_buffer_pos = Len(typed))

\* C11, the case: a byte was inserted between two bytes of the line.
C11_InsertedInTheMiddle ==
    /\ dispatched = <<"process_other">>
    /\ command_buffer_pos > 1
    /\ command_buffer_pos < Len(command_buffer)
    /\ command_buffer[command_buffer_pos] # command_buffer[command_buffer_pos - 1]

\* ---- C12 ---------------------------------------------------------------

\* C12: a call that decodes DEL with the cursor at 0 leaves the buffer and
\* the cursor as they were and writes one bell and nothing else; with the
\* cursor at p > 0 it leaves the buffer without its byte at index p - 1, all
\* other bytes in order, and the cursor at p - 1.
C12_DeleteBeforeCursor ==
    [][ dispatched' = <<"process_delete">> =>
           LET p == command_buffer_pos IN
           IF p = 0
           THEN /\ command_buffer' = command_buffer
                /\ command_buffer_pos' = 0
                /\ written' = <<BELL>>
           ELSE /\ command_buffer' = SubSeq(command_buffer, 1, p - 1)
                                     \o SubSeq(command_buffer, p + 1, Len(command_buffer))
                /\ Len(command_buffer') = Len(command_buffer) - 1
                /\ command_buffer_pos' = p - 1
      ]_vars

\* C12, the case: DEL removed the byte before the cursor, which stood
\* between "a" and "b", and the two are left.
C12_DeletedInTheMiddle ==
    /\ dispatched = <<"process_delete">>
    /\ command_buffer_pos = 1
    /\ command_buffer = <<97, 98>>
    /\ BELL \notin Bytes(written)

\* ---- C13 ---------------------------------------------------------------

\* C13: a call that decodes history-previous with an empty history, or with
\* the history cursor at 0, writes one bell and leaves the history cursor,
\* the buffer, the cursor and the history as they were; from the live line
\* with a history of n > 0 entries it shows entry n - 1 (the newest), from
\* index i > 0 it shows entry i - 1 and leaves the history as it was; the
\* index is never below 0; and when history-previous is all the peer sends,
\* the index reaches 0.
C13_PreviousReachesOldest ==
    /\ [][ Runs("process_prev_history") =>
              IF command_history = <<>> \/ command_history_pos = 0
              THEN /\ written' = <<BELL>>
                   /\ UNCHANGED <<command_history_pos, command_buffer,
                                  command_buffer_pos, command_history>>
              ELSE IF command_history_pos = NONE
              THEN /\ command_history_pos' = Len(command_history) - 1
                   /\ command_buffer' = command_history[Len(command_history)]
                   /\ command_buffer_pos' = Len(command_buffer')
                   /\ BELL \notin Bytes(written')
              ELSE /\ command_history_pos' = command_history_pos - 1
                   /\ command_buffer' = command_history[command_history_pos]
                   /\ command_buffer_pos' = Len(command_buffer')
                   /\ command_history' = command_history
                   /\ BELL \notin Bytes(written')
         ]_vars
    /\ [](command_history_pos = NONE \/ command_history_pos >= 0)
    /\ ((browsed /\ command_history # <<>>) ~> (command_history_pos = 0))

\* C13, the case: history-previous was decoded at the oldest of two entries
\* and rang the bell.
C13_BellAtOldest ==
    /\ Ran("process_prev_history")
    /\ written = <<BELL>>
    /\ command_history_pos = 0
    /\ Len(command_history) >= 2

\* ---- C14 ---------------------------------------------------------------

\* C14: both flags are false in a new session; a call whose read completes
\* IAC DO opt or IAC DONT opt with opt ECHO or SUPPRESS-GO-AHEAD leaves that
\* option's flag true for DO and false for DONT and the other flag as it
\* was; every other call (IAC WILL, IAC WONT, another command or option, an
\* incomplete sequence, any other byte) leaves both flags as they were.
C14_FlagsFollowDoAndDont ==
    /\ (~telnet_echo /\ ~telnet_suppress_go_ahead)
    /\ [][ LET buffered == input_bytes_buffer \o new_input_bytes' IN
           IF /\ Len(buffered) = 3
              /\ buffered[1] = TELNET_INTERPRET_AS_COMMAND
              /\ buffered[2] \in {TELNET_DO, TELNET_DONT}
              /\ buffered[3] \in {TELNET_OPTION_ECHO, TELNET_OPTION_SUPPRESS_GO_AHEAD}
           THEN IF buffered[3] = TELNET_OPTION_ECHO
                THEN /\ telnet_echo' = (buffered[2] = TELNET_DO)
                     /\ UNCHANGED telnet_suppress_go_ahead
                ELSE /\ telnet_suppress_go_ahead' = (buffered[2] = TELNET_DO)
                     /\ UNCHANGED telnet_echo
           ELSE UNCHANGED <<telnet_echo, telnet_suppress_go_ahead>>
         ]_vars

\* C14, the case: IAC DONT SUPPRESS-GO-AHEAD was decoded, the last byte in a
\* read of its own, and the echo flag set before is still set.
C14_DontClearsOneFlag ==
    /\ dispatched = <<"process_telnet_command">>
    /\ new_input_bytes = <<TELNET_OPTION_SUPPRESS_GO_AHEAD>>
    /\ input_bytes_buffer = <<>>
    /\ telnet_echo
    /\ ~telnet_suppress_go_ahead

\* ---- C15 ---------------------------------------------------------------

\* `sub' occurs in `seq' as a run of consecutive bytes.
Contains(seq, sub) ==
    \E i \in 0..(Len(seq) - Len(sub)) : SubSeq(seq, i + 1, i + Len(sub)) = sub

\* What a call that decoded '?' wrote before it rendered the prompt and the
\* line again (the cursor is at the end of the line).
HelpPrinted ==
    SubSeq(written, 1, Len(written) - Len(command_buffer) - 2)

\* '?' was decoded, the cursor at the end of a line whose tokens are all
\* consumed at an Action: one word that selects one key of show and
\* shutdown, or "set value t" under {"set": {"$value": f}}.
HelpConsumedAtAction ==
    /\ dispatched = <<"process_question_mark">>
    /\ command_buffer_pos = Len(command_buffer)
    /\ LET tokens == Split(DecodeUtf8Ignore(command_buffer)) IN
       \/ parse_tree = ShowTree /\ Len(tokens) = 1
                                /\ Cardinality(Selected(tokens[1])) = 1
       \/ parse_tree = SetTree /\ NamesValue(tokens)

\* The full keywords and the parameter values of such a line.
PathWords ==
    LET tokens == Split(DecodeUtf8Ignore(command_buffer)) IN
    IF parse_tree = ShowTree THEN Selected(tokens[1])
    ELSE {WordSet, tokens[3]}

\* C15: when '?' is decoded with the line's tokens all consumed at an
\* Action, the text printed before the prompt holds every full keyword and
\* parameter value of the line.
C15_HelpAtActionPrintsPath ==
    HelpConsumedAtAction => \A word \in PathWords : Contains(HelpPrinted, word)

\* ---- C16 ---------------------------------------------------------------

\* C16: a call that decodes '?' leaves the command buffer, the cursor, the
\* history, the history cursor and the two negotiated flags as they were,
\* and the byte '?' is never in the command buffer.
C16_HelpKeepsTheLine ==
    /\ [][ dispatched' = <<"process_question_mark">> =>
              UNCHANGED <<command_buffer, command_buffer_pos, command_history,
                          command_history_pos, telnet_echo,
                          telnet_suppress_go_ahead>> ]_vars
    /\ [](QUESTION_MARK \notin Bytes(command_buffer))

\* C16, the case: '?' was decoded with the cursor inside a line of two
\* bytes.
C16_HelpInsideTheLine ==
    /\ dispatched = <<"process_question_mark">>
    /\ Len(command_buffer) = 2
    /\ command_buffer_pos = 1

\* ---- C17 ---------------------------------------------------------------

\* The first words of the parser's five error reports.
ErrorHeads ==
    { <<65, 109, 98, 105, 103, 117, 111, 117, 115, 32, 105, 110, 112, 117, 116, 32, 34>>,
      <<85, 110, 114, 101, 99, 111, 103, 110, 105, 122, 101, 100, 32, 105, 110, 112,
        117, 116, 32, 34>>,
      <<77, 105, 115, 115, 105, 110, 103, 32, 105, 110, 112, 117, 116, 44, 32, 112,
        111, 115, 115, 105, 98, 108, 101, 32, 99, 111, 109, 112, 108, 101, 116, 105,
        111, 110, 115, 58>>,
      <<77, 105, 115, 115, 105, 110, 103, 32, 118, 97, 108, 117, 101, 32, 102, 111,
        114, 32, 112, 97, 114, 97, 109, 101, 116, 101, 114, 32, 60>>,
      <<85, 110, 101, 120, 112, 101, 99, 116, 101, 100, 32, 101, 120, 116, 114, 97,
        32, 105, 110, 112, 117, 116, 58, 32>> }

\* The line the last call completed ended in the error report `head'.
Reported(head) == StartsWith(written, AfterLineEnd(head))

ParserError == \E head \in ErrorHeads : Reported(head)

Prompt == <<62, 32>>

\* C17: a completed line that ends in one of the five error reports invokes
\* no Action and leaves the session open and scheduled; after every
\* completed line the output ends with the prompt and the command buffer is
\* empty with the cursor at 0; a completed line invokes at most one Action,
\* and one that invokes an Action prints nothing but the prompt (its tokens
\* were consumed at the Action with no error); a line with tokens either
\* reports an error or invokes an Action.
C17_ErrorsRunNothing ==
    CompletedLine =>
        /\ ParserError => (calls = <<>> /\ registered /\ ~exited /\ closed_fds = <<>>)
        /\ command_buffer = <<>> /\ command_buffer_pos = 0
        /\ SliceFrom(written, Len(written) - 2) = Prompt
        /\ Len(calls) <= 1
        /\ calls # <<>> => written = AfterLineEnd(Prompt)
        /\ Tokens # <<>> => (ParserError \/ calls # <<>>)

\* C17, the case: "show x" was completed; x is left when the Action show is
\* reached.
C17_ExtraInputAfterShow ==
    /\ CompletedLine
    /\ Tokens = <<WordShow, WordX>>
    /\ ParserError
    /\ calls = <<>>

\* ---- C18 ---------------------------------------------------------------

\* The session after one call that reads the whole stream at once, from the
\* session as it was opened.
InOneRead ==
    LET s == Open(telnet, rx_fd, tx_fd, parse_tree) IN
    IF since_open.read = <<>> THEN s ELSE ready_to_read(s, since_open.read)

\* C18: however the stream was divided into reads, the command buffer, the
\* cursor, the history, the history cursor, the two negotiated flags, the
\* bytes left in the input buffer, the lines completed and the bytes written
\* since the session was opened are those of one call that reads the whole
\* stream.
C18_SplitIndependent ==
    since_open.followed =>
        LET one == InOneRead IN
        /\ command_buffer = one.command_buffer
        /\ command_buffer_pos = one.command_buffer_pos
        /\ command_history = one.command_history
        /\ command_history_pos = one.command_history_pos
        /\ telnet_echo = one.telnet_echo
        /\ telnet_suppress_go_ahead = one.telnet_suppress_go_ahead
        /\ input_bytes_buffer = one.input_bytes_buffer
        /\ since_open.completed = one.completed
        /\ since_open.written = one.written

\* C18, the case: "a" and ESC [ D arrived with the D in a read of its own,
\* and the cursor went left over the "a".
C18_CursorKeyInTwoReads ==
    /\ since_open.followed
    /\ since_open.read = <<97, ESCAPE, VT100_LEFT_SQUARE_BRACKET, VT100_CURSOR_LEFT>>
    /\ new_input_bytes = <<VT100_CURSOR_LEFT>>
    /\ command_buffer = <<97>>
    /\ command_buffer_pos = 0

\* ---- C19 ---------------------------------------------------------------

\* A line of one token was completed under {"show": show, "shutdown":
\* shutdown}, and the token selects both keys.
AmbiguousAtRoot ==
    /\ parse_tree = ShowTree
    /\ CompletedLine
    /\ Len(Tokens) = 1
    /\ Cardinality(Selected(Tokens[1])) > 1

\* The line of the output that holds `text' and nothing else.
OutputLine(text) ==
    <<CARRIAGE_RETURN, LINE_FEED>> \o text \o <<CARRIAGE_RETURN, LINE_FEED>>

\* C19: on an ambiguous token at the root, where nothing is parsed yet and
\* every candidate is an Action, the line printed for a candidate keyword k
\* is k followed by a space, with no other candidate's text before it.
C19_CandidateOwnExpansion ==
    AmbiguousAtRoot =>
        \A key \in Selected(Tokens[1]) :
            Contains(written, OutputLine(key \o <<32>>))

\* ---- C20 ---------------------------------------------------------------

\* The terminal of the claim: the line the cursor is on and the column.
\* Printable bytes overwrite at the column and advance it, ESC [ n C and
\* ESC [ n D move the column (n is 1 when absent), ESC [ K erases from the
\* column on, CR returns to column 0, LF starts an empty line, and any other
\* byte shows nothing.
IsDigit(byte) == byte \in 48..57

RECURSIVE DigitsAt(_, _)
DigitsAt(bytes, i) ==
    IF i <= Len(bytes) /\ IsDigit(bytes[i]) THEN 1 + DigitsAt(bytes, i + 1) ELSE 0

RECURSIVE DecimalValue(_)
DecimalValue(digits) ==
    IF digits = <<>> THEN 0
    ELSE 10 * DecimalValue(SubSeq(digits, 1, Len(digits) - 1))
         + (digits[Len(digits)] - 48)

RECURSIVE Spaces(_)
Spaces(n) == IF n <= 0 THEN <<>> ELSE <<32>> \o Spaces(n - 1)

Put(display, byte) ==
    LET line == display.line \o Spaces(display.col - Len(display.line)) IN
    [line |-> SubSeq(line, 1, display.col) \o <<byte>>
              \o SubSeq(line, display.col + 2, Len(line)),
     col |-> display.col + 1]

ControlSequence(display, n, final) ==
    IF final = VT100_CURSOR_RIGHT THEN [display EXCEPT !.col = @ + n]
    ELSE IF final = VT100_CURSOR_LEFT
    THEN [display EXCEPT !.col = IF @ > n THEN @ - n ELSE 0]
    ELSE IF final = VT100_ERASE_TO_END_OF_LINE
    THEN [display EXCEPT !.line = IF display.col < Len(@)
                                  THEN SubSeq(@, 1, display.col) ELSE @]
    ELSE display

\* The byte at `i' belongs to a control sequence that starts before it.
InControlSequence(bytes, i) ==
    \E j \in 1..(i - 1) :
        /\ bytes[j] = ESCAPE
        /\ bytes[j + 1] = VT100_LEFT_SQUARE_BRACKET
        /\ i <= j + 2 + DigitsAt(bytes, j + 2)

\* What the terminal does with the byte at `i', a control sequence being
\* taken whole at its first byte.
TerminalByte(display, bytes, i) ==
    LET byte == bytes[i] IN
    IF InControlSequence(bytes, i) THEN display
    ELSE IF byte = ESCAPE /\ i < Len(bytes)
                          /\ bytes[i + 1] = VT100_LEFT_SQUARE_BRACKET
    THEN LET digits == DigitsAt(bytes, i + 2) IN
         IF Len(bytes) < i + 2 + digits THEN display
         ELSE ControlSequence(display,
                              IF digits = 0 THEN 1
                              ELSE DecimalValue(SubSeq(bytes, i + 2, i + 1 + digits)),
                              bytes[i + 2 + digits])
    ELSE IF byte = CARRIAGE_RETURN THEN [display EXCEPT !.col = 0]
    ELSE IF byte = LINE_FEED THEN [display EXCEPT !.line = <<>>]
    ELSE IF byte \in 32..126 THEN Put(display, byte)
    ELSE display

\* The bytes from `from' to `to' in order, the range taken by halves.
RECURSIVE TerminalBytes(_, _, _, _)
TerminalBytes(display, bytes, from, to) ==
    IF from > to THEN display
    ELSE IF from = to THEN TerminalByte(display, bytes, from)
    ELSE LET middle == (from + to) \div 2 IN
         CHOOSE last \in {TerminalBytes(first, bytes, middle + 1, to) :
                             first \in {TerminalBytes(display, bytes, from, middle)}} :
             TRUE

Terminal(display, bytes) == TerminalBytes(display, bytes, 1, Len(bytes))

\* The display that shows the prompt, the line `buffer' after it and the
\* cursor at `pos' of the line.
Shown(buffer, pos) == [line |-> Prompt \o buffer, col |-> Len(Prompt) + pos]

MustEcho == ~telnet \/ telnet_echo

\* C20: a local session opens with the display showing the prompt and the
\* empty line; and when must_echo holds before and after a call and the
\* display shows the command buffer and the cursor before it, then after
\* the bytes the call wrote it shows the command buffer and the cursor the
\* call left, whatever the call decoded (insert at any cursor, delete,
\* cursor left and right, start and end of line, history recall, '?', the
\* end of a line).
C20_DisplayFollowsEditor ==
    /\ ~telnet =>
          Terminal([line |-> <<>>, col |-> 0], written)
              = Shown(command_buffer, command_buffer_pos)
    /\ [][ (MustEcho /\ MustEcho') =>
              \A output \in {written'} :
                  Terminal(Shown(command_buffer, command_buffer_pos), output)
                      = Shown(command_buffer', command_buffer_pos') ]_vars

\* C20, the case: a byte was inserted before the last byte of a line of a
\* local session, and the tail of the line was rendered again.
C20_InsertedAndRendered ==
    /\ ~telnet
    /\ dispatched = <<"process_other">>
    /\ Len(command_buffer) = 3
    /\ command_buffer_pos = 2
    /\ Contains(written, <<ESCAPE, VT100_LEFT_SQUARE_BRACKET, VT100_ERASE_TO_END_OF_LINE>>)

\* ---- C21 ---------------------------------------------------------------

\* C21: in every state the history cursor is live (None) or an index of the
\* history, 0 <= command_history_pos < len(command_history), and no history
\* entry is empty.
C21_HistoryCursorInRange ==
    /\ command_history_pos = NONE
       \/ (0 <= command_history_pos /\ command_history_pos < Len(command_history))
    /\ \A i \in 1..Len(command_history) : command_history[i] # <<>>

\* C21, the case: history-next was decoded and showed the newest of two
\* entries, the last index of the history.
C21_NextAtNewest ==
    /\ Ran("process_next_history")
    /\ Len(command_history) = 2
    /\ command_history_pos = 1
    /\ command_buffer = command_history[2]

\* ---- C22 ---------------------------------------------------------------

\* The call `call' was made with a parameter mapping that binds `name' to a
\* token of the completed line.
BindsToken(call, name) ==
    /\ call.args # <<>>
    /\ \E binding \in call.args[1] :
           /\ binding[1] = name
           /\ \E i \in 1..Len(Tokens) : Tokens[i] = binding[2]

\* C22: under {"set": {"$value": f}} every call of f a completed line makes
\* has a parameter mapping that binds value to a token of the line, also
\* when tokens of the line start with '$'.
C22_ParameterActionNeedsValue ==
    (parse_tree = SetTree /\ CompletedLine) =>
        \A i \in 1..Len(calls) :
            calls[i].fn = "set_value" => BindsToken(calls[i], WordValue)

====
